---------------------------- MODULE Spec2Model ----------------------------
(***************************************************************************)
(* Moonitor: the trade-execution and position-lifecycle pipeline.          *)
(*                                                                         *)
(* One asyncio event loop runs the message handlers (one orchestration per *)
(* incoming message) and the limit-order monitor.  A handler suspends only *)
(* at its awaits (telegram_listener.py:60-72); everything from the         *)
(* ProcessedMessage insert to the end of the `with` block is synchronous   *)
(* code (blocking `requests` calls included), so it runs without any other *)
(* coroutine in between.  `running` is the coroutine that holds the loop.  *)
(*                                                                         *)
(* Encoding of Python values:                                              *)
(*   - a signature is a positive integer, None is Null (0);                *)
(*   - an amount is a natural number, None is NullAmt (-1);                *)
(*   - a token address is a non-empty string, None/"" is NoToken;          *)
(*   - a JSON object is a record with one field per key the code reads; a  *)
(*     key the object does not carry holds Absent / Null / NullAmt.        *)
(*                                                                         *)
(* database.py under src/ declares no get_db_session and no                *)
(* take_profit_percentage / stop_loss_percentage column, although every    *)
(* caller uses them (message_processor.py:6,59,165-166,                    *)
(* telegram_listener.py:8,59,160-161, limit_monitor.py:5,50).  The store   *)
(* module the callers are written against is therefore modelled from the   *)
(* specification (sections 3 and 5): a session whose writes become durable *)
(* when the `with` block is left, and a Position that accepts the plan's   *)
(* two percentages.  See SessionCommits and TradeAcceptsPlanTargets.       *)
(***************************************************************************)
EXTENDS Integers, Sequences, FiniteSets, Bags, TLC

\* ------------------------------------------------------------------ bounds
MaxSignals == 2
\* the failed monitor ticks the model follows (each one sends a notification)
MaxTickErrors == 1
Signals == 1..MaxSignals

Null == 0
NullAmt == 0 - 1
NoToken == ""
Absent == "absent"
Tokens == {"T1", "T2"}

\* ------------------------------------------------------------ environment
\* The six planner settings, in hundredths (1.0 SOL = 100).  A setting that
\* float() rejects is NotNumeric; one that is not set is Missing (main.py:24-41
\* refuses to start the program with a setting that is not set).
NotNumeric == 0 - 1
Missing == 0 - 2
Configs ==
  { [base_purchase_sol |-> 100, base_take_profit_pct |-> 30, base_stop_loss_pct |-> 50,
     purchase_influence_factor |-> 50, tp_increase_factor |-> 50, sl_decrease_factor |-> 50],
    [base_purchase_sol |-> NotNumeric, base_take_profit_pct |-> 30, base_stop_loss_pct |-> 50,
     purchase_influence_factor |-> 50, tp_increase_factor |-> 50, sl_decrease_factor |-> 50] }

\* What the LLM collaborator may return (openai_analyzer.py:69-78): None, or
\* an object with decision in {buy, hold}, a token address or null, and a
\* confidence score (in hundredths).
NoAnalysis == [decision |-> Absent, token_address |-> NoToken, confidence_score |-> 0]
Analyses ==
  {NoAnalysis}
    \cup [decision : {"hold"}, token_address : {NoToken}, confidence_score : {0}]
    \cup [decision : {"buy"}, token_address : Tokens \cup {NoToken}, confidence_score : {80}]

LamportsPerSol == 1000000000

VARIABLES
  env,          \* the planner settings of this deployment (os.getenv)
  running,      \* the orchestration that holds the event loop, or 0
  pc,           \* pc[s]: where orchestration s is
  analysis,     \* analysis[s]: the LLM decision of message s
  trade_plan,   \* trade_plan[s]: the plan, or NoPlan
  quote,        \* quote[s]: the gateway's current quote / order data
  signed_tx,    \* signed_tx[s]: TRUE once sign_transaction returned a payload
  swap,         \* swap[s]: what market_swap returned
  tp,           \* tp[s]: what create_limit_order returned
  tp_amounts,   \* tp_amounts[s]: what calculate_take_profit_amounts returned
  calls,        \* calls[s]: the provider calls made for s, in order
  new_trade,    \* new_trade[s]: the session's pending Trade row, or NoTrade
  outcome,      \* outcome[s]: how the orchestration ended
  trades,       \* the durable trades table, in id order
  orders,       \* the provider's trigger orders, by open transaction
  discord,      \* bag of the notifications sent
  provider,     \* the answers getTriggerOrders can give from now on
  clock         \* the time of day

vars == <<env, running, pc, analysis, trade_plan, quote, signed_tx, swap, tp, tp_amounts, calls,
          new_trade, outcome, trades, orders, discord, provider, clock>>

\* ------------------------------------------------------------- exceptions
\* The exception classes the modelled code can raise, and what a request and
\* the reading of its answer can raise: requests.get/post (ConnectionError),
\* raise_for_status (HTTPError), response.json() (JSONDecodeError), and the
\* use of a JSON value that is no object (TypeError, AttributeError).
AnyException == {"ConnectionError", "HTTPError", "JSONDecodeError", "TypeError",
                 "AttributeError", "ValueError", "ZeroDivisionError"}
RequestExceptions == {"ConnectionError", "HTTPError", "JSONDecodeError", "TypeError",
                      "AttributeError"}

\* ------------------------------------------------------------- the planner
\* round(x, 2) of a value given in ten-thousandths of a hundredth: to the
\* nearest hundredth, a tie to the even neighbour.
\* The products whose binary double lies just above the decimal tie
\* (0.66 * 1.25 = 0.8250000000000001), so that round() does not see a tie.
AboveTie == {66 * 12500}
RoundHundredths(n) ==
  LET q == n \div 10000
      r == n % 10000
  IN  IF n \in AboveTie THEN q + 1
      ELSE IF r > 5000 \/ (r = 5000 /\ q % 2 = 1) THEN q + 1 ELSE q

\* Mutant of Min: the first argument, whatever the second.
Min_First(a, b) == a

\* strategy.py:53 min(calculated_stop_loss, 0.99)
Min(a, b) == IF a < b THEN a ELSE b

\* int(final_purchase_sol * 1_000_000_000) on a binary double: the product of a
\* two-decimal amount falls just below the integer for the amounts listed
\* (all of them, up to 5.00 SOL), and int() truncates.
TruncatedHundredths == {201, 203, 205, 207, 209, 211, 402, 406, 410, 414, 418, 422, 427}
SolToLamports(h) ==
  IF h \in TruncatedHundredths THEN h * (LamportsPerSol \div 100) - 1
  ELSE h * (LamportsPerSol \div 100)

NoPlan == [amount |-> NullAmt, take_profit_percentage |-> 0, stop_loss_percentage |-> 0,
           token_address |-> NoToken]

\* strategy.py:23-30: the second argument of os.getenv, in hundredths;
\* BASE_PURCHASE_SOL has none.
getenv_default ==
  [base_purchase_sol |-> Missing, base_take_profit_pct |-> 30, base_stop_loss_pct |-> 50,
   purchase_influence_factor |-> 50, tp_increase_factor |-> 50, sl_decrease_factor |-> 50]

\* os.getenv(name, default) for every setting
getenv(cfg) == [k \in DOMAIN cfg |-> IF cfg[k] = Missing THEN getenv_default[k] ELSE cfg[k]]

\* strategy.py:23-30: float() takes every value read
ConfigNumeric(cfg) == \A k \in DOMAIN cfg : getenv(cfg)[k] \notin {NotNumeric, Missing}

\* Mutant of Confidence: the score as the decision carries it.
Confidence_Unchecked(a) == a.confidence_score

\* strategy.py:32-35: an out-of-range confidence counts as 0.
Confidence(a) ==
  IF a.confidence_score > 100 \/ a.confidence_score < 0 THEN 0 ELSE a.confidence_score

\* strategy.py:65-70 `except (ValueError, TypeError)` and `except Exception`
calculate_trade_plan_except == AnyException

\* strategy.py:23-30: float() of a string that is no number raises
\* ValueError, float(None) raises TypeError
calculate_trade_plan_raises(a, cfg) ==
  \/ /\ \E k \in DOMAIN cfg : getenv(cfg)[k] = NotNumeric
     /\ "ValueError" \notin calculate_trade_plan_except
  \/ /\ \E k \in DOMAIN cfg : getenv(cfg)[k] = Missing
     /\ "TypeError" \notin calculate_trade_plan_except

\* strategy.py:5-70 calculate_trade_plan
calculate_trade_plan(a, cfg) ==
  IF ~ConfigNumeric(cfg) THEN NoPlan
  ELSE LET c == Confidence(a)
           e == getenv(cfg)
           final_purchase_sol ==
             RoundHundredths(e.base_purchase_sol * (10000 + c * e.purchase_influence_factor))
           final_take_profit_pct ==
             RoundHundredths(e.base_take_profit_pct * (10000 + c * e.tp_increase_factor))
           calculated_stop_loss == e.base_stop_loss_pct * (10000 + c * e.sl_decrease_factor)
       IN  [amount |-> SolToLamports(final_purchase_sol),
            take_profit_percentage |-> final_take_profit_pct,
            stop_loss_percentage |-> RoundHundredths(Min(calculated_stop_loss, 99 * 10000)),
            token_address |-> a.token_address]

\* ------------------------------------------------------------- the store
\* spec-modelled (spec section 5): the session's writes become durable when
\* the `with get_db_session()` block is left without an exception.
SessionCommits == TRUE
\* spec-modelled (spec section 3, "targets"): the Position accepts the plan's
\* take-profit and stop-loss percentages.
TradeAcceptsPlanTargets == TRUE

NoTrade == [processed_message_id |-> 0, token_address |-> NoToken, status |-> Absent,
            buy_transaction_sig |-> Null, amount_spent_sol |-> NullAmt,
            amount_received_token |-> NullAmt, take_profit_percentage |-> 0,
            tp_order_sig |-> Null, sell_transaction_sig |-> Null, sell_timestamp |-> Absent]

\* Mutant of Trade: the buy signature is stored whatever the swap returned.
Trade_KeepsSignature(s, token, success, signature, plan) ==
  [processed_message_id |-> s, token_address |-> token,
   status |-> IF ~success THEN "failed" ELSE "open",
   buy_transaction_sig |-> signature,
   amount_spent_sol |-> NullAmt, amount_received_token |-> NullAmt,
   take_profit_percentage |-> plan.take_profit_percentage,
   tp_order_sig |-> Null, sell_transaction_sig |-> Null, sell_timestamp |-> Absent]

\* database.py:57-90 Trade, as message_processor.py:158-167 constructs it
Trade(s, token, success, signature, plan) ==
  [processed_message_id |-> s, token_address |-> token,
   status |-> IF ~success THEN "failed" ELSE "open",
   buy_transaction_sig |-> IF success THEN signature ELSE Null,
   amount_spent_sol |-> NullAmt, amount_received_token |-> NullAmt,
   take_profit_percentage |-> plan.take_profit_percentage,
   tp_order_sig |-> Null, sell_transaction_sig |-> Null, sell_timestamp |-> Absent]

\* The rows a query of orchestration s sees: the durable table, and the row
\* its own session has flushed.
Visible(s) == IF new_trade[s] = NoTrade THEN trades ELSE Append(trades, new_trade[s])

\* Mutant of existing_trade: the query finds nothing.
existing_trade_Never(s, token) == FALSE

\* Mutant of existing_trade: the query looks for the token of another signal.
existing_trade_OtherToken(s, token) ==
  \E i \in 1..Len(Visible(s)) : Visible(s)[i].token_address # token

\* Mutant of existing_trade: the query skips the failed rows.
existing_trade_NonFailed(s, token) ==
  \E i \in 1..Len(Visible(s)) :
    Visible(s)[i].token_address = token /\ Visible(s)[i].status # "failed"

\* message_processor.py:134-138: db_session.query(Trade).filter_by(token_address=...).first()
existing_trade(s, token) ==
  \E i \in 1..Len(Visible(s)) : Visible(s)[i].token_address = token

\* ------------------------------------------------------ provider responses
NoResult == [isNone |-> TRUE, status |-> Absent, signature |-> Null,
             inputAmountResult |-> NullAmt, outputAmountResult |-> NullAmt, error |-> Absent]
EmptyResult == [NoResult EXCEPT !.isNone = FALSE]
ErrorResult(reason) == [EmptyResult EXCEPT !.error = reason]

\* `not result`: None or an empty object
Falsy(r) == r.isNone \/ r = EmptyResult

\* What /ultra/v1/execute may answer for the swap of signal s.
ExecuteResponses(s) ==
  { NoResult, EmptyResult,
    [EmptyResult EXCEPT !.status = "Success", !.signature = s,
                        !.inputAmountResult = 1398000000, !.outputAmountResult = 1000],
    [EmptyResult EXCEPT !.status = "Success", !.inputAmountResult = 1400000000,
                        !.outputAmountResult = 0],
    [EmptyResult EXCEPT !.status = "Success", !.signature = s, !.outputAmountResult = 1000],
    [EmptyResult EXCEPT !.status = "Success", !.signature = s, !.inputAmountResult = 1398000000],
    [EmptyResult EXCEPT !.status = "Failed", !.signature = s, !.error = "slippage"],
    [EmptyResult EXCEPT !.status = "Failed"] }

\* What /ultra/v1/order or /trigger/v1/createOrder may answer: nothing usable
\* (transport error, HTTP error status), or an object whose transaction is
\* absent, not decodable, not signed by this wallet, or fine, with or
\* without a requestId.
NoQuote == [isNone |-> TRUE, outAmount |-> FALSE, transaction |-> Absent, requestId |-> Null]
QuoteResponses ==
  {NoQuote} \cup [isNone : {FALSE}, outAmount : BOOLEAN,
                  transaction : {Absent, "undecodable", "foreign", "ok"}, requestId : {Null, 1}]

\* The exception an answer stands for: one of the request's, when no object
\* came back.
Faults(resp) == IF resp.isNone THEN RequestExceptions ELSE {Absent}

\* Mutant of get_quote_except: only the errors of the requests library are caught.
get_quote_except_RequestsOnly == {"ConnectionError", "HTTPError"}

\* trader.py:84 `except Exception`
get_quote_except == AnyException

\* trader.py:72-86: the exception leaves get_quote
get_quote_raises(resp, exc) == resp.isNone /\ exc \notin get_quote_except

\* trader.py:49-86 get_quote: None unless the answer carries outAmount
get_quote(resp) == IF resp.isNone \/ ~resp.outAmount THEN NoQuote ELSE resp

\* trader.py:129 `except Exception`
sign_transaction_except == AnyException

\* trader.py:104-106: base64 or the transaction parser rejects the bytes
\* with a ValueError
sign_transaction_raises(quote_data) ==
  quote_data.transaction = "undecodable" /\ "ValueError" \notin sign_transaction_except

\* trader.py:88-131 sign_transaction: a payload only for a decodable
\* transaction that lists the wallet among its account keys
sign_transaction(quote_data) == quote_data.transaction = "ok"

NoRet == [success |-> FALSE, signature |-> Null, result |-> NoResult]
Ret(success, signature, result) ==
  [success |-> success, signature |-> signature, result |-> result]

\* ------------------------------------------------------- take-profit sizing
\* int(amount_spent_sol * 1_000_000_000) of amount_spent_sol =
\* float(inputAmountResult) / 1_000_000_000, on binary doubles: the product
\* falls just below the integer for the amounts listed (all of them, below
\* 500 lamports), and int() truncates; 1398000000 and 1400000000 survive.
LossyLamports == {15, 30, 60, 63, 120, 126, 240, 245, 247, 252, 480, 483, 487, 490, 494, 497}
SpentToLamports(lamports) == IF lamports \in LossyLamports THEN lamports - 1 ELSE lamports

\* The inputs (spent in lamports, received, percentage) for which the double
\* quotient amount_spent_sol / target_price lies just below the integer the
\* exact quotient is (1.4 / (1.4 / 1000 * 1.25) = 799.9999999999999), so
\* that int() gives one less.
ShortQuotients == { <<1400000000, 1000, 25>>, <<1398000000, 1000000, 0>>, <<15, 1000, 0>> }
Quotient(spent, received, pct) ==
  IF <<spent, received, pct>> \in ShortQuotients THEN received * 100 - 1 ELSE received * 100

\* int() of a quotient: towards zero
TruncDiv(a, b) ==
  LET Abs(x) == IF x < 0 THEN 0 - x ELSE x
      q == Abs(a) \div Abs(b)
  IN  IF (a < 0) = (b < 0) THEN q ELSE 0 - q

\* message_processor.py:233: nothing computed yet
NoAmounts == [raised |-> FALSE, making |-> 0, taking |-> 0]

\* strategy.py:73-99 calculate_take_profit_amounts.  A None amount raises
\* TypeError, which the function does not catch; a zero amount divides by
\* zero, which it turns into (0, 0).
calculate_take_profit_amounts(amount_spent_sol, amount_received_token, take_profit_percentage) ==
  IF amount_spent_sol = NullAmt \/ amount_received_token = NullAmt
  THEN [raised |-> TRUE, making |-> 0, taking |-> 0]
  ELSE IF amount_received_token = 0 \/ amount_spent_sol = 0 \/ 100 + take_profit_percentage = 0
  THEN [raised |-> FALSE, making |-> 0, taking |-> 0]
  ELSE [raised |-> FALSE,
        making |-> TruncDiv(Quotient(amount_spent_sol, amount_received_token,
                                     take_profit_percentage),
                            100 + take_profit_percentage),
        taking |-> SpentToLamports(amount_spent_sol)]

\* ------------------------------------------------------------ notifications
Note(kind, ref) == [kind |-> kind, ref |-> ref]
Notify(bag, kind, ref) == bag (+) SetToBag({Note(kind, ref)})
Sent(kind, ref) == CopiesIn(Note(kind, ref), discord)

\* ------------------------------------------------------------------- Init
NoOrder == [status |-> Absent, closeTx |-> Null, updatedAt |-> Absent]

\* What getTriggerOrders may answer: the order book; or nothing usable (a
\* transport error, an HTTP error status, a body without "orders"); or the
\* order book and, with it, an order that carries no status.
HistoryResponses == {"orders", "failed", "malformed"}

Init ==
  /\ env \in Configs
  /\ running = 0
  /\ pc = [s \in Signals |-> "idle"]
  /\ analysis = [s \in Signals |-> NoAnalysis]
  /\ trade_plan = [s \in Signals |-> NoPlan]
  /\ quote = [s \in Signals |-> NoQuote]
  /\ signed_tx = [s \in Signals |-> FALSE]
  /\ swap = [s \in Signals |-> NoRet]
  /\ tp = [s \in Signals |-> NoRet]
  /\ tp_amounts = [s \in Signals |-> NoAmounts]
  /\ calls = [s \in Signals |-> <<>>]
  /\ new_trade = [s \in Signals |-> NoTrade]
  /\ outcome = [s \in Signals |-> "none"]
  /\ trades = <<>>
  /\ orders = [x \in Signals |-> NoOrder]
  /\ discord = EmptyBag
  /\ provider = HistoryResponses
  /\ clock = "now1"

\* ------------------------------------------------------- the orchestration
Goto(s, where) == pc' = [pc EXCEPT ![s] = where]
End(s, how) == /\ pc' = [pc EXCEPT ![s] = "commit"]
               /\ outcome' = [outcome EXCEPT ![s] = how]
Called(s, what) == calls' = [calls EXCEPT ![s] = Append(@, what)]

\* telegram_listener.py:42-54: the handler starts; a message without text is
\* dropped, otherwise the handler awaits the chat and the sender.
NewMessage(s) ==
  /\ pc[s] = "idle"
  /\ \E has_text \in BOOLEAN :
       IF has_text THEN Goto(s, "awaiting") /\ UNCHANGED outcome
       ELSE /\ Goto(s, "done")
            /\ outcome' = [outcome EXCEPT ![s] = "no_text"]
  /\ UNCHANGED <<clock, provider, env, tp_amounts, running, analysis, trade_plan, quote, signed_tx, swap, tp, calls,
                 new_trade, trades, orders, discord>>

\* message_processor.py:58-111: the message is saved, analysed and the
\* decision notified; only a buy goes on to _execute_trade.  A signal is
\* numbered by its ProcessedMessage id, which the flush at line 71 assigns
\* in the order the handlers get here.
Analyse(s) ==
  /\ pc[s] = "awaiting"
  /\ running = 0
  /\ \A r \in Signals : r < s => pc[r] = "done"
  /\ running' = s
  /\ \E a \in Analyses :
       /\ analysis' = [analysis EXCEPT ![s] = a]
       /\ IF a = NoAnalysis
          THEN End(s, "analysis_failed") /\ UNCHANGED discord
          ELSE /\ discord' = Notify(discord, "decision", s)
               /\ IF a.decision = "buy" THEN Goto(s, "gate") /\ UNCHANGED outcome
                  ELSE End(s, "hold")
  /\ UNCHANGED <<clock, provider, env, tp_amounts, trade_plan, quote, signed_tx, swap, tp, calls, new_trade, trades,
                 orders>>

\* message_processor.py:129-140: no token address, or a Trade row for the
\* token, ends the trade here.
Gate(s) ==
  /\ pc[s] = "gate"
  /\ IF analysis[s].token_address = NoToken THEN End(s, "no_token")
     ELSE IF existing_trade(s, analysis[s].token_address) THEN End(s, "duplicate")
     ELSE Goto(s, "plan") /\ UNCHANGED outcome
  /\ UNCHANGED <<clock, provider, env, tp_amounts, running, analysis, trade_plan, quote, signed_tx, swap, tp, calls,
                 new_trade, trades, orders, discord>>

\* message_processor.py:142-147
Plan_Drifts(s) ==
  /\ pc[s] = "plan"
  /\ trade_plan' = [trade_plan EXCEPT ![s] = calculate_trade_plan(analysis[s], env)]
  /\ env' = [env EXCEPT !.base_purchase_sol = IF @ > 0 THEN @ + 1 ELSE @]
  /\ IF trade_plan'[s] = NoPlan THEN End(s, "no_plan")
     ELSE Goto(s, "swap_quote") /\ UNCHANGED outcome
  /\ UNCHANGED <<clock, provider, tp_amounts, running, analysis, quote, signed_tx, swap, tp, calls, new_trade,
                 trades, orders, discord>>

\* Mutant of Plan: the swap is asked for whatever the planner returned.
Plan_IgnoresNone(s) ==
  /\ pc[s] = "plan"
  /\ trade_plan' = [trade_plan EXCEPT ![s] = calculate_trade_plan(analysis[s], env)]
  /\ Goto(s, "swap_quote") /\ UNCHANGED outcome
  /\ UNCHANGED <<clock, provider, env, tp_amounts, running, analysis, quote, signed_tx, swap, tp, calls, new_trade,
                 trades, orders, discord>>

Plan(s) ==
  /\ pc[s] = "plan"
  /\ LET plan == calculate_trade_plan(analysis[s], env)
     IN  IF calculate_trade_plan_raises(analysis[s], env)
         THEN End(s, "raised") /\ UNCHANGED trade_plan
         ELSE /\ trade_plan' = [trade_plan EXCEPT ![s] = plan]
              /\ IF plan = NoPlan THEN End(s, "no_plan")
                 ELSE Goto(s, "swap_quote") /\ UNCHANGED outcome
  /\ UNCHANGED <<clock, provider, env, tp_amounts, running, analysis, quote, signed_tx, swap, tp, calls, new_trade,
                 trades, orders, discord>>

\* ----------------------------------------------------------- market_swap
\* message_processor.py:150-154: the amount market_swap is asked to swap
market_swap_amount(s) == trade_plan[s].amount

\* trader.py:192, 197, 202, 207, 212: market_swap returns
SwapReturns(s, ret) ==
  /\ swap' = [swap EXCEPT ![s] = ret]
  /\ quote' = [quote EXCEPT ![s] = NoQuote]
  /\ signed_tx' = [signed_tx EXCEPT ![s] = FALSE]
  /\ Goto(s, "record")
  /\ UNCHANGED outcome

\* message_processor.py:113-115: an exception that leaves market_swap or the
\* planner leaves _execute_trade too and ends process_message
Propagates(s) ==
  /\ quote' = [quote EXCEPT ![s] = NoQuote]
  /\ signed_tx' = [signed_tx EXCEPT ![s] = FALSE]
  /\ End(s, "raised")

\* trader.py:189-192: step 1, the quote
GetQuote(s) ==
  /\ pc[s] = "swap_quote"
  /\ Called(s, "quote")
  /\ \E resp \in QuoteResponses : \E exc \in Faults(resp) :
       LET q == get_quote(resp)
       IN  IF get_quote_raises(resp, exc)
           THEN Propagates(s) /\ UNCHANGED swap
           ELSE IF q = NoQuote
           THEN SwapReturns(s, Ret(FALSE, Null, ErrorResult("Failed to get quote")))
           ELSE /\ quote' = [quote EXCEPT ![s] = q]
                /\ Goto(s, "swap_sign")
                /\ UNCHANGED <<swap, signed_tx, outcome>>
  /\ UNCHANGED <<clock, provider, env, tp_amounts, running, analysis, trade_plan, tp, new_trade, trades,
                 orders, discord>>

\* Mutant of SignTransaction: the requestId of the quote is not looked at.
SignTransaction_IgnoresRequestId(s) ==
  /\ pc[s] = "swap_sign"
  /\ Called(s, "sign")
  /\ IF sign_transaction_raises(quote[s])
     THEN Propagates(s) /\ UNCHANGED swap
     ELSE IF ~sign_transaction(quote[s])
     THEN SwapReturns(s, Ret(FALSE, Null, ErrorResult("Failed to sign transaction")))
     ELSE /\ signed_tx' = [signed_tx EXCEPT ![s] = TRUE]
          /\ Goto(s, "swap_execute")
          /\ UNCHANGED <<swap, quote, outcome>>
  /\ UNCHANGED <<clock, provider, env, tp_amounts, running, analysis, trade_plan, tp, new_trade, trades,
                 orders, discord>>

\* trader.py:194-201: step 2, the signature, then the requestId
SignTransaction(s) ==
  /\ pc[s] = "swap_sign"
  /\ Called(s, "sign")
  /\ IF sign_transaction_raises(quote[s])
     THEN Propagates(s) /\ UNCHANGED swap
     ELSE IF ~sign_transaction(quote[s])
     THEN SwapReturns(s, Ret(FALSE, Null, ErrorResult("Failed to sign transaction")))
     ELSE IF quote[s].requestId = Null
     THEN SwapReturns(s, Ret(FALSE, Null, ErrorResult("Missing requestId in quote")))
     ELSE /\ signed_tx' = [signed_tx EXCEPT ![s] = TRUE]
          /\ Goto(s, "swap_execute")
          /\ UNCHANGED <<swap, quote, outcome>>
  /\ UNCHANGED <<clock, provider, env, tp_amounts, running, analysis, trade_plan, tp, new_trade, trades,
                 orders, discord>>

\* trader.py:173 `except Exception`
execute_swap_except == AnyException

\* trader.py:151-175: the exception leaves execute_swap
execute_swap_raises(resp, exc) == resp.isNone /\ exc \notin execute_swap_except

\* trader.py:133-175 execute_swap: the provider's answer, or None
execute_swap(resp) == resp

\* trader.py:203-212: what market_swap returns for an execution result
SwapResult(result) ==
  IF Falsy(result) THEN Ret(FALSE, Null, ErrorResult("Execution failed"))
  ELSE Ret(result.status = "Success", result.signature, result)

\* trader.py:203-212: step 3, the execution
ExecuteSwap(s) ==
  /\ pc[s] = "swap_execute"
  /\ signed_tx[s]
  /\ Called(s, "execute")
  /\ \E resp \in ExecuteResponses(s) : \E exc \in Faults(resp) :
       IF execute_swap_raises(resp, exc)
       THEN Propagates(s) /\ UNCHANGED swap
       ELSE SwapReturns(s, SwapResult(execute_swap(resp)))
  /\ UNCHANGED <<clock, provider, env, tp_amounts, running, analysis, trade_plan, tp, new_trade, trades,
                 orders, discord>>

\* ------------------------------------------------------ the Trade record
\* message_processor.py:169-182: the amounts are read from the result; the
\* log line at 181 reads actual_sol_spent, which is bound only when the
\* result carries inputAmountResult.
RecordRaises(ret) ==
  \/ ~TradeAcceptsPlanTargets
  \/ ret.success /\ ret.result.inputAmountResult = NullAmt

\* Mutant of NewTrade: the row holds the planned amount, not the settled one.
NewTrade_PlannedAmount(s, ret, plan) ==
  LET row == Trade(s, analysis[s].token_address, ret.success, ret.signature, plan)
  IN  IF ret.success
      THEN [row EXCEPT !.amount_spent_sol = plan.amount,
                       !.amount_received_token = ret.result.outputAmountResult]
      ELSE row

\* Mutant of NewTrade: the amounts of the result are not copied to the row.
NewTrade_KeepsNone(s, ret, plan) ==
  Trade(s, analysis[s].token_address, ret.success, ret.signature, plan)

\* message_processor.py:158-182: the row as it is added to the session
NewTrade(s, ret, plan) ==
  LET row == Trade(s, analysis[s].token_address, ret.success, ret.signature, plan)
  IN  IF ret.success
      THEN [row EXCEPT !.amount_spent_sol = ret.result.inputAmountResult,
                       !.amount_received_token = ret.result.outputAmountResult]
      ELSE row

\* message_processor.py:156-219
RecordTrade(s) ==
  /\ pc[s] = "record"
  /\ IF RecordRaises(swap[s])
     THEN End(s, "record_error") /\ UNCHANGED <<new_trade, discord>>
     ELSE /\ new_trade' = [new_trade EXCEPT ![s] = NewTrade(s, swap[s], trade_plan[s])]
          /\ discord' = Notify(discord,
                               IF swap[s].success THEN "trade_executed" ELSE "trade_failed", s)
          /\ IF swap[s].success THEN Goto(s, "take_profit") /\ UNCHANGED outcome
             ELSE End(s, "buy_failed")
  /\ UNCHANGED <<clock, provider, env, tp_amounts, running, analysis, trade_plan, quote, signed_tx, swap, tp, calls,
                 trades, orders>>

\* ----------------------------------------------------- create_limit_order
\* What /trigger/v1/createOrder may answer (outAmount is not read here).
OrderResponses == {r \in QuoteResponses : r.isNone \/ r.outAmount}

\* What /trigger/v1/execute may answer for the order of signal s.
OrderExecuteResponses(s) ==
  { NoResult, EmptyResult,
    [EmptyResult EXCEPT !.status = "Success", !.signature = s],
    [EmptyResult EXCEPT !.status = "Success"],
    [EmptyResult EXCEPT !.status = "Failed", !.signature = s, !.error = "rejected"],
    [EmptyResult EXCEPT !.status = "Failed"] }

\* trader.py:323 `except Exception`
execute_limit_order_except == AnyException

\* trader.py:301-325: the exception leaves execute_limit_order
execute_limit_order_raises(resp, exc) == resp.isNone /\ exc \notin execute_limit_order_except

\* trader.py:283-325 execute_limit_order: the provider's answer, or None
execute_limit_order(resp) == resp

\* trader.py:279 `except Exception`
create_limit_order_except == AnyException

\* trader.py:243-281: the exception leaves create_limit_order
create_limit_order_raises(exc) == exc # Absent /\ exc \notin create_limit_order_except

\* trader.py:262-277: what create_limit_order returns for an execution result
OrderResult(result) ==
  IF Falsy(result) THEN Ret(FALSE, Null, ErrorResult("Execution failed"))
  ELSE Ret(result.status = "Success", result.signature, result)

\* Mutant of OrderReturns: the returned signature is stored on the row
\* whether or not the order was created.
OrderReturns_AttachesAlways(s, ret) ==
  /\ tp' = [tp EXCEPT ![s] = ret]
  /\ quote' = [quote EXCEPT ![s] = NoQuote]
  /\ signed_tx' = [signed_tx EXCEPT ![s] = FALSE]
  /\ new_trade' = [new_trade EXCEPT ![s].tp_order_sig = ret.signature]
  /\ IF ret.success
     THEN /\ discord' = Notify(discord, "tp_created", s)
          /\ End(s, "tp_placed")
     ELSE /\ discord' = Notify(discord, "tp_failed", s)
          /\ End(s, "tp_failed")

\* Mutant of OrderReturns: a Position whose order was not created is closed
\* as failed.
OrderReturns_FailedCloses(s, ret) ==
  /\ tp' = [tp EXCEPT ![s] = ret]
  /\ quote' = [quote EXCEPT ![s] = NoQuote]
  /\ signed_tx' = [signed_tx EXCEPT ![s] = FALSE]
  /\ IF ret.success
     THEN /\ new_trade' = [new_trade EXCEPT ![s].tp_order_sig = ret.signature]
          /\ discord' = Notify(discord, "tp_created", s)
          /\ End(s, "tp_placed")
     ELSE /\ new_trade' = [new_trade EXCEPT ![s].status = "failed"]
          /\ discord' = Notify(discord, "tp_failed", s)
          /\ End(s, "tp_failed")

\* message_processor.py:248-266: create_limit_order has returned
OrderReturns(s, ret) ==
  /\ tp' = [tp EXCEPT ![s] = ret]
  /\ quote' = [quote EXCEPT ![s] = NoQuote]
  /\ signed_tx' = [signed_tx EXCEPT ![s] = FALSE]
  /\ IF ret.success
     THEN /\ new_trade' = [new_trade EXCEPT ![s].tp_order_sig = ret.signature]
          /\ discord' = Notify(discord, "tp_created", s)
          /\ End(s, "tp_placed")
     ELSE /\ discord' = Notify(discord, "tp_failed", s)
          /\ End(s, "tp_failed")
          /\ UNCHANGED new_trade

\* message_processor.py:270-271: an exception that leaves create_limit_order
\* is logged by _setup_take_profit_order; nothing is notified
OrderPropagates(s) ==
  /\ quote' = [quote EXCEPT ![s] = NoQuote]
  /\ signed_tx' = [signed_tx EXCEPT ![s] = FALSE]
  /\ End(s, "tp_raised")
  /\ UNCHANGED <<tp, new_trade, discord>>

\* message_processor.py:231-246 and trader.py:243-249: the sizes, and step 1
\* of create_limit_order, the order request
SetupTakeProfit(s) ==
  /\ pc[s] = "take_profit"
  /\ LET amounts == calculate_take_profit_amounts(new_trade[s].amount_spent_sol,
                                                  new_trade[s].amount_received_token,
                                                  trade_plan[s].take_profit_percentage)
     IN  /\ tp_amounts' = [tp_amounts EXCEPT ![s] = amounts]
         /\ IF amounts.raised
            THEN End(s, "tp_error")
                 /\ UNCHANGED <<calls, quote, signed_tx, tp, new_trade, discord>>
            ELSE IF ~(amounts.making > 0 /\ amounts.taking > 0)
            THEN End(s, "tp_skipped")
                 /\ UNCHANGED <<calls, quote, signed_tx, tp, new_trade, discord>>
            ELSE /\ Called(s, "createOrder")
                 /\ \E resp \in OrderResponses : \E exc \in Faults(resp) :
                      IF create_limit_order_raises(exc)
                      THEN OrderPropagates(s)
                      ELSE IF resp.isNone
                      THEN OrderReturns(s, Ret(FALSE, Null, ErrorResult(exc)))
                      ELSE /\ quote' = [quote EXCEPT ![s] = resp]
                           /\ Goto(s, "tp_sign")
                           /\ UNCHANGED <<signed_tx, tp, new_trade, discord, outcome>>
  /\ UNCHANGED <<clock, provider, env, running, analysis, trade_plan, swap, trades, orders>>

\* trader.py:251-260: step 2, the signature, then the requestId
SignOrder(s) ==
  /\ pc[s] = "tp_sign"
  /\ Called(s, "signOrder")
  /\ IF sign_transaction_raises(quote[s])
     THEN IF create_limit_order_raises("ValueError")
          THEN OrderPropagates(s)
          ELSE OrderReturns(s, Ret(FALSE, Null, ErrorResult("ValueError")))
     ELSE IF ~sign_transaction(quote[s])
     THEN OrderReturns(s, Ret(FALSE, Null, ErrorResult("Failed to sign transaction")))
     ELSE IF quote[s].requestId = Null
     THEN OrderReturns(s, Ret(FALSE, Null, ErrorResult("Missing requestId")))
     ELSE /\ signed_tx' = [signed_tx EXCEPT ![s] = TRUE]
          /\ Goto(s, "tp_execute")
          /\ UNCHANGED <<quote, tp, new_trade, discord, outcome>>
  /\ UNCHANGED <<clock, provider, env, tp_amounts, running, analysis, trade_plan, swap, trades, orders>>

OpenOrder == [status |-> "Open", closeTx |-> Null, updatedAt |-> Absent]

\* trader.py:262-277: step 3, the execution.  An order the provider accepted
\* under signature s is from then on in the provider's order book.
ExecuteLimitOrder(s) ==
  /\ pc[s] = "tp_execute"
  /\ signed_tx[s]
  /\ Called(s, "executeOrder")
  /\ \E resp \in OrderExecuteResponses(s) : \E exc \in Faults(resp) :
       /\ IF execute_limit_order_raises(resp, exc)
          THEN IF create_limit_order_raises(exc)
               THEN OrderPropagates(s)
               ELSE OrderReturns(s, Ret(FALSE, Null, ErrorResult(exc)))
          ELSE OrderReturns(s, OrderResult(execute_limit_order(resp)))
       /\ orders' = IF resp.status = "Success" /\ resp.signature # Null
                    THEN [orders EXCEPT ![resp.signature] = OpenOrder]
                    ELSE orders
  /\ UNCHANGED <<clock, provider, env, tp_amounts, running, analysis, trade_plan, swap, trades>>

\* The `with get_db_session()` block is left: the session's row becomes
\* durable and the handler returns, releasing the event loop; its locals
\* are gone.
\* Mutant of Commit: the pending row is inserted twice.
Commit_AddsTwice(s) ==
  /\ pc[s] = "commit"
  /\ running = s
  /\ running' = 0
  /\ Goto(s, "done")
  /\ trades' = IF SessionCommits /\ new_trade[s] # NoTrade
               THEN Append(Append(trades, new_trade[s]), new_trade[s]) ELSE trades
  /\ new_trade' = [new_trade EXCEPT ![s] = NoTrade]
  /\ trade_plan' = [trade_plan EXCEPT ![s] = NoPlan]
  /\ swap' = [swap EXCEPT ![s] = NoRet]
  /\ tp' = [tp EXCEPT ![s] = NoRet]
  /\ tp_amounts' = [tp_amounts EXCEPT ![s] = NoAmounts]
  /\ UNCHANGED <<clock, provider, env, analysis, quote, signed_tx, calls, outcome, orders, discord>>

Commit(s) ==
  /\ pc[s] = "commit"
  /\ running = s
  /\ running' = 0
  /\ Goto(s, "done")
  /\ trades' = IF SessionCommits /\ new_trade[s] # NoTrade
               THEN Append(trades, new_trade[s]) ELSE trades
  /\ new_trade' = [new_trade EXCEPT ![s] = NoTrade]
  /\ trade_plan' = [trade_plan EXCEPT ![s] = NoPlan]
  /\ swap' = [swap EXCEPT ![s] = NoRet]
  /\ tp' = [tp EXCEPT ![s] = NoRet]
  /\ tp_amounts' = [tp_amounts EXCEPT ![s] = NoAmounts]
  /\ UNCHANGED <<clock, provider, env, analysis, quote, signed_tx, calls, outcome, orders, discord>>

\* ------------------------------------------------------------ the provider
\* The terminal states the provider may report for an order opened under
\* signature x: status as the provider spells it, the closing transaction
\* and the update time (an ISO string, an unparseable string, or none).
TerminalOrders(x) ==
  { [status |-> "completed", closeTx |-> 100 + x, updatedAt |-> "iso"],
    [status |-> "Completed", closeTx |-> Null, updatedAt |-> "unparseable"],
    [status |-> "Cancelled", closeTx |-> Null, updatedAt |-> Absent] }

\* The provider fills, cancels or expires an open order.
ProviderCloses(x) ==
  /\ orders[x] = OpenOrder
  /\ \E o \in TerminalOrders(x) : orders' = [orders EXCEPT ![x] = o]
  /\ UNCHANGED <<clock, provider, env, tp_amounts, running, pc, analysis, trade_plan, quote, signed_tx, swap, tp, calls,
                 new_trade, outcome, trades, discord>>

\* The provider settles: from now on getTriggerOrders gives only some of the
\* answers it could give so far (the outage is over for good; or the history
\* has come to hold an order without a status, and keeps it).
ProviderSettles ==
  /\ \E answers \in (SUBSET provider) \ {{}, provider} : provider' = answers
  /\ UNCHANGED <<clock, env, tp_amounts, running, pc, analysis, trade_plan, quote, signed_tx, swap, tp, calls,
                 new_trade, outcome, trades, orders, discord>>

\* -------------------------------------------------------------- the monitor
\* Mutant of Lower: the status as the provider spells it.
Lower_Verbatim(status) == status

\* str.lower() on the statuses the provider uses
Lower(status) ==
  CASE status = "Open" -> "open"
    [] status = "Completed" -> "completed"
    [] status = "Cancelled" -> "cancelled"
    [] OTHER -> status

\* Mutant of non_active_orders: the open orders are kept as well.
non_active_orders_All(book) == {x \in DOMAIN book : book[x].status # Absent}

\* limit_monitor.py:30-45: the orders that are not open, by openTx
non_active_orders(book) ==
  {x \in DOMAIN book : book[x].status # Absent /\ Lower(book[x].status) # "open"}

\* Mutant of trades_to_check: every trade is loaded, whatever its status.
trades_to_check_All(trade) == TRUE

\* limit_monitor.py:52-54: only the open trades are loaded
trades_to_check(trade) == trade.status = "open"

\* limit_monitor.py:89-101: the sell timestamp of a completed order is the
\* provider's update time, or the current time when that is missing or
\* does not parse
Nows == {"now1", "now2"}
\* main.py:48: a minute passes between two ticks
Later(now) == IF now = "now1" THEN "now2" ELSE "now1"
SellTimestamp(order, now) == IF order.updatedAt = "iso" THEN "provider" ELSE now

\* limit_monitor.py:59-62: the trades one tick updates
\* Mutant of Matches: the trade is looked up by its sell signature.
Matches_BySellSig(trade, book) ==
  /\ trades_to_check(trade)
  /\ trade.sell_transaction_sig # Null
  /\ trade.sell_transaction_sig \in non_active_orders(book)

Matches(trade, book) ==
  /\ trades_to_check(trade)
  /\ trade.tp_order_sig # Null
  /\ trade.tp_order_sig \in non_active_orders(book)

\* Mutant of CheckTrade: a completed order sets the status and the sell
\* timestamp, and leaves the sell transaction signature alone.
CheckTrade_KeepsSellSig(trade, book, now) ==
  IF Matches(trade, book)
  THEN LET order_info == book[trade.tp_order_sig]
           order_status == Lower(order_info.status)
       IN  IF order_status = "completed"
           THEN [trade EXCEPT !.status = order_status,
                              !.sell_timestamp = SellTimestamp(order_info, now)]
           ELSE [trade EXCEPT !.status = order_status]
  ELSE trade

\* Mutant of CheckTrade: an open trade whose order is not in the history as
\* closed is given up.
CheckTrade_ClosesUnmatched(trade, book, now) ==
  IF Matches(trade, book)
  THEN LET order_info == book[trade.tp_order_sig]
           order_status == Lower(order_info.status)
       IN  IF order_status = "completed"
           THEN [trade EXCEPT !.status = order_status,
                              !.sell_transaction_sig = order_info.closeTx,
                              !.sell_timestamp = SellTimestamp(order_info, now)]
           ELSE [trade EXCEPT !.status = order_status]
  ELSE IF trades_to_check(trade) /\ trade.tp_order_sig # Null
  THEN [trade EXCEPT !.status = "unknown"]
  ELSE trade

\* Mutant of CheckTrade: a transition also clears the order reference.
CheckTrade_ClearsOrderSig(trade, book, now) ==
  IF Matches(trade, book)
  THEN LET order_info == book[trade.tp_order_sig]
           order_status == Lower(order_info.status)
       IN  IF order_status = "completed"
           THEN [trade EXCEPT !.status = order_status,
                              !.sell_transaction_sig = order_info.closeTx,
                              !.sell_timestamp = SellTimestamp(order_info, now),
                              !.tp_order_sig = Null]
           ELSE [trade EXCEPT !.status = order_status, !.tp_order_sig = Null]
  ELSE trade

\* limit_monitor.py:59-105: what one tick makes of one trade row
CheckTrade(trade, book, now) ==
  IF Matches(trade, book)
  THEN LET order_info == book[trade.tp_order_sig]
           order_status == Lower(order_info.status)
       IN  IF order_status = "completed"
           THEN [trade EXCEPT !.status = order_status,
                              !.sell_transaction_sig = order_info.closeTx,
                              !.sell_timestamp = SellTimestamp(order_info, now)]
           ELSE [trade EXCEPT !.status = order_status]
  ELSE trade

\* limit_monitor.py:66-85: the notifications of one tick, trade by trade
RECURSIVE TickNotes(_, _, _, _, _)
TickNotes(bag, before, after, book, i) ==
  IF i > Len(before) THEN bag
  ELSE LET sent ==
             IF ~Matches(before[i], book) THEN bag
             ELSE IF after[i].status = "completed"
             THEN IF after[i].sell_transaction_sig # Null
                  THEN Notify(bag, "tp_executed", before[i].processed_message_id)
                  ELSE bag
             ELSE Notify(bag, "tp_status", before[i].processed_message_id)
       IN  TickNotes(sent, before, after, book, i + 1)

\* limit_monitor.py:17-47 and 112-115: how the tick ends for an answer.  The
\* statuses are read before any trade is loaded, so an order without one
\* ends the tick in the except branch.
\* Mutant of TickResult: an order without a status is skipped.
TickResult_SkipsMalformed(resp) == IF resp = "failed" THEN resp ELSE "ok"

TickResult(resp) == IF resp = "orders" THEN "ok" ELSE resp

\* limit_monitor.py:11-115 check_limit_order, for the answer of the provider
\* and the time of the clock.  The error notifications are counted up to
\* MaxTickErrors.
check_limit_order(resp, now) ==
  /\ IF TickResult(resp) = "ok"
     THEN LET after == [i \in 1..Len(trades) |-> CheckTrade(trades[i], orders, now)]
          IN  /\ trades' = IF SessionCommits THEN after ELSE trades
              /\ discord' = TickNotes(discord, trades, after, orders, 1)
     ELSE /\ discord' = IF Sent("monitor_error", 0) < MaxTickErrors
                        THEN Notify(discord, "monitor_error", 0) ELSE discord
          /\ UNCHANGED trades
  /\ UNCHANGED <<provider, env, tp_amounts, running, pc, analysis, trade_plan, quote, signed_tx, swap, tp, calls,
                 new_trade, outcome, orders>>

\* main.py:44-51 limit_order_monitor: one turn of the loop, taken when no
\* handler holds the event loop
\* Mutant of MonitorTick: the loop ends with the first tick that fails.
MonitorTick_EndsOnError ==
  /\ running = 0
  /\ Sent("monitor_error", 0) = 0
  /\ clock' = Later(clock)
  /\ \E resp \in provider : check_limit_order(resp, clock)

MonitorTick ==
  /\ running = 0
  /\ clock' = Later(clock)
  /\ \E resp \in provider : check_limit_order(resp, clock)

\* ------------------------------------------------------------------- Next
Next ==
  \/ \E s \in Signals :
       \/ NewMessage(s)
       \/ Analyse(s)
       \/ Gate(s)
       \/ Plan(s)
       \/ GetQuote(s)
       \/ SignTransaction(s)
       \/ ExecuteSwap(s)
       \/ RecordTrade(s)
       \/ SetupTakeProfit(s)
       \/ SignOrder(s)
       \/ ExecuteLimitOrder(s)
       \/ Commit(s)
       \/ ProviderCloses(s)
  \/ MonitorTick

Spec == Init /\ [][Next]_vars

\* The steps of the handler of message s once the message has arrived.
Handler(s) ==
  \/ Analyse(s) \/ Gate(s) \/ Plan(s)
  \/ GetQuote(s) \/ SignTransaction(s) \/ ExecuteSwap(s) \/ RecordTrade(s)
  \/ SetupTakeProfit(s) \/ SignOrder(s) \/ ExecuteLimitOrder(s) \/ Commit(s)

\* ----------------------------------------------------- the planner alone
\* calculate_trade_plan called on its own: every signal is one call, with
\* the settings of the environment and a buy decision of any confidence.
ValidConfig == CHOOSE cfg \in Configs : ConfigNumeric(cfg)
SettingNames == DOMAIN ValidConfig
PlannerConfigs ==
  { ValidConfig,
    [ValidConfig EXCEPT !.base_purchase_sol = 201, !.purchase_influence_factor = 0],
    [ValidConfig EXCEPT !.base_purchase_sol = 25, !.base_take_profit_pct = 25],
    [ValidConfig EXCEPT !.base_stop_loss_pct = 80],
    [ValidConfig EXCEPT !.base_stop_loss_pct = 66],
    [ValidConfig EXCEPT !.base_stop_loss_pct = 99, !.sl_decrease_factor = 0],
    [ValidConfig EXCEPT !.base_purchase_sol = 0],
    [ValidConfig EXCEPT !.base_purchase_sol = 0 - 100] }
    \cup { [ValidConfig EXCEPT ![k] = v] : k \in SettingNames, v \in {Missing, NotNumeric} }
PlannerAnalyses ==
  [decision : {"buy"}, token_address : {"T1"}, confidence_score : {0 - 10, 0, 50, 80, 100, 150}]

PlannerInit ==
  /\ env \in PlannerConfigs
  /\ running = 0
  /\ pc = [s \in Signals |-> "plan"]
  /\ analysis \in [Signals -> PlannerAnalyses]
  /\ trade_plan = [s \in Signals |-> NoPlan]
  /\ quote = [s \in Signals |-> NoQuote]
  /\ signed_tx = [s \in Signals |-> FALSE]
  /\ swap = [s \in Signals |-> NoRet]
  /\ tp = [s \in Signals |-> NoRet]
  /\ tp_amounts = [s \in Signals |-> NoAmounts]
  /\ calls = [s \in Signals |-> <<>>]
  /\ new_trade = [s \in Signals |-> NoTrade]
  /\ outcome = [s \in Signals |-> "none"]
  /\ trades = <<>>
  /\ orders = [x \in Signals |-> NoOrder]
  /\ discord = EmptyBag
  /\ provider = HistoryResponses
  /\ clock = "now1"

PlannerNext == \E s \in Signals : Plan(s)

PlannerSpec == PlannerInit /\ [][PlannerNext]_vars

\* ------------------------------------------------------ the sizing alone
\* calculate_take_profit_amounts called on its own, as
\* _setup_take_profit_order calls it: every signal is one call on a row with
\* the amounts (lamports spent, tokens received) and a plan with the
\* take-profit percentage of one input.  An amount may be missing, zero or
\* negative, the percentage may be -100% or below.
SizingInputs ==
  { <<1398000000, 1000, 42>>, <<1398000000, 1000, 30>>, <<1400000000, 1000, 42>>,
    <<1398000000, 0, 42>>, <<0, 1000, 42>>, <<0, 0, 42>>,
    <<1398000000, 1000, 0 - 100>>, <<1398000000, 1000, 0 - 200>>,
    <<0 - 1000000000, 1000, 30>>, <<1398000000, 0 - 1000, 42>>,
    <<NullAmt, 1000, 42>>, <<1398000000, NullAmt, 42>>,
    <<1400000000, 1000, 25>>, <<1398000000, 1000000, 0>>, <<15, 1000, 0>> }
SizingPlan(in) == [NoPlan EXCEPT !.amount = 1400000000, !.take_profit_percentage = in[3],
                                 !.stop_loss_percentage = 50, !.token_address = "T1"]
SizingTrade(s, in) ==
  [Trade(s, "T1", TRUE, s, SizingPlan(in)) EXCEPT !.amount_spent_sol = in[1],
                                                !.amount_received_token = in[2]]

SizingInit ==
  /\ env = ValidConfig
  /\ running = 0
  /\ pc = [s \in Signals |-> "take_profit"]
  /\ analysis = [s \in Signals |->
                   [decision |-> "buy", token_address |-> "T1", confidence_score |-> 80]]
  /\ \E in \in [Signals -> SizingInputs] :
       /\ trade_plan = [s \in Signals |-> SizingPlan(in[s])]
       /\ new_trade = [s \in Signals |-> SizingTrade(s, in[s])]
  /\ quote = [s \in Signals |-> NoQuote]
  /\ signed_tx = [s \in Signals |-> FALSE]
  /\ swap = [s \in Signals |-> NoRet]
  /\ tp = [s \in Signals |-> NoRet]
  /\ tp_amounts = [s \in Signals |-> NoAmounts]
  /\ calls = [s \in Signals |-> <<>>]
  /\ outcome = [s \in Signals |-> "none"]
  /\ trades = <<>>
  /\ orders = [x \in Signals |-> NoOrder]
  /\ discord = EmptyBag
  /\ provider = HistoryResponses
  /\ clock = "now1"

SizingNext == \E s \in Signals : SetupTakeProfit(s)

SizingSpec == SizingInit /\ [][SizingNext]_vars

\* --------------------------------------------------- the monitor on its own
\* The monitor loop over the Positions that earlier orchestrations have
\* committed: bought with the take-profit order placed, bought with the
\* order refused, or not bought.  No message arrives any more.
MonitorShapes == {"placed", "unplaced", "failed"}
MonitorInput == <<1398000000, 1000, 42>>
MonitorTrade(s, shape) ==
  IF shape = "failed" THEN Trade(s, "T1", FALSE, Null, SizingPlan(MonitorInput))
  ELSE [SizingTrade(s, MonitorInput) EXCEPT !.tp_order_sig = IF shape = "placed" THEN s ELSE Null]
MonitorOutcome(shape) ==
  IF shape = "placed" THEN "tp_placed" ELSE IF shape = "unplaced" THEN "tp_failed" ELSE "buy_failed"
MonitorCalls(shape) ==
  IF shape = "placed"
  THEN <<"quote", "sign", "execute", "createOrder", "signOrder", "executeOrder">>
  ELSE IF shape = "unplaced" THEN <<"quote", "sign", "execute", "createOrder">>
  ELSE <<"quote">>
MonitorNotes(s, shape) ==
  {Note("decision", s)}
    \cup (IF shape = "failed" THEN {Note("trade_failed", s)} ELSE {Note("trade_executed", s)})
    \cup (IF shape = "placed" THEN {Note("tp_created", s)}
          ELSE IF shape = "unplaced" THEN {Note("tp_failed", s)} ELSE {})

MonitorInit ==
  /\ env = ValidConfig
  /\ running = 0
  /\ pc = [s \in Signals |-> "done"]
  /\ analysis = [s \in Signals |->
                   [decision |-> "buy", token_address |-> "T1", confidence_score |-> 80]]
  /\ \E shape \in [Signals -> MonitorShapes] :
       /\ trades = [s \in Signals |-> MonitorTrade(s, shape[s])]
       /\ orders = [x \in Signals |-> IF shape[x] = "placed" THEN OpenOrder ELSE NoOrder]
       /\ outcome = [s \in Signals |-> MonitorOutcome(shape[s])]
       /\ calls = [s \in Signals |-> MonitorCalls(shape[s])]
       /\ discord = SetToBag(UNION {MonitorNotes(s, shape[s]) : s \in Signals})
  /\ trade_plan = [s \in Signals |-> NoPlan]
  /\ new_trade = [s \in Signals |-> NoTrade]
  /\ quote = [s \in Signals |-> NoQuote]
  /\ signed_tx = [s \in Signals |-> FALSE]
  /\ swap = [s \in Signals |-> NoRet]
  /\ tp = [s \in Signals |-> NoRet]
  /\ tp_amounts = [s \in Signals |-> NoAmounts]
  /\ provider = HistoryResponses
  /\ clock = "now1"

MonitorNext ==
  \/ MonitorTick
  \/ \E x \in Signals : ProviderCloses(x)
  \/ ProviderSettles

\* main.py:46-51: the loop sleeps, runs the tick, catches what it raises and
\* goes round again, so a tick that can make a difference is made in the end.
MonitorSpec == MonitorInit /\ [][MonitorNext]_vars /\ WF_vars(MonitorTick)

\* ======================================================================
\* Properties
\* ======================================================================
Rows(t) == {i \in 1..Len(trades) : trades[i].token_address = t}
NonFailedRows(t) == {i \in Rows(t) : trades[i].status # "failed"}
RowsOf(s) == {i \in 1..Len(trades) : trades[i].processed_message_id = s}
Buys(s, t) == analysis[s].decision = "buy" /\ analysis[s].token_address = t
BothDone(r, s, t) ==
  r < s /\ pc[r] = "done" /\ pc[s] = "done" /\ Buys(r, t) /\ Buys(s, t)

Stored == IF running = 0 THEN trades ELSE Visible(running)

PastGate == {"plan", "swap_quote", "swap_sign", "swap_execute", "record", "take_profit",
             "tp_sign", "tp_execute"}

SwapReturned(s) == swap[s] # NoRet
RowIsFailed(row, s) ==
  /\ row.processed_message_id = s
  /\ row.status = "failed"
  /\ row.buy_transaction_sig = Null

C5_EverySwapRecorded ==
  \A s \in Signals :
    /\ pc[s] = "commit" /\ SwapReturned(s) =>
         /\ new_trade[s] # NoTrade
         /\ new_trade[s].processed_message_id = s
         /\ new_trade[s].status = IF swap[s].success THEN "open" ELSE "failed"
    /\ pc[s] = "done" /\ calls[s] # <<>> => Cardinality(RowsOf(s)) = 1

\* The order the history reports as completed for the take-profit signature
\* of the open Position i.
CompletedFor(i) ==
  /\ trades[i].status = "open"
  /\ trades[i].tp_order_sig # Null
  /\ Lower(orders[trades[i].tp_order_sig].status) = "completed"

TickCompletes(i) ==
  /\ trades'[i].status = "completed"
  /\ trades'[i].sell_transaction_sig = orders[trades[i].tp_order_sig].closeTx

\* What a tick over a Position that is no longer open leaves alone: the row
\* and the notifications sent for it.
TickLeaves(i) ==
  /\ trades'[i] = trades[i]
  /\ \A kind \in {"tp_executed", "tp_status"} :
       CopiesIn(Note(kind, trades[i].processed_message_id), discord') =
         Sent(kind, trades[i].processed_message_id)

\* A monitor tick whose history request is answered by one of the answers.
TickReads(answers) ==
  /\ running = 0
  /\ clock' = Later(clock)
  /\ \E resp \in answers \cap provider : check_limit_order(resp, clock)

\* C6 as stated: whenever the fetched history contains a completed order
\* whose openTx is the take-profit signature of a stored open Position, the
\* tick sets the Position to completed with the order's closeTx as sell
\* signature; and a later tick changes no field of it and sends no further
\* notification for it.
C6_TickCompletesOnce ==
  [][\A i \in 1..Len(trades) :
       /\ CompletedFor(i) /\ TickReads({"orders", "malformed"}) => TickCompletes(i)
       /\ trades[i].status = "completed" /\ MonitorTick => TickLeaves(i)]_vars

\* C6 as amended: whenever a tick reads, without error, a history in which
\* every order carries a status and which contains a completed order whose
\* openTx is the take-profit signature of a stored open Position, the tick
\* sets the Position to completed with the order's closeTx as sell
\* signature; and a later tick changes no field of it and sends no further
\* notification for it.
C6_WellFormedTickCompletesOnce ==
  [][\A i \in 1..Len(trades) :
       /\ CompletedFor(i) /\ TickReads({"orders"}) => TickCompletes(i)
       /\ trades[i].status = "completed" /\ MonitorTick => TickLeaves(i)]_vars

C6_Witness ==
  \E i \in 1..Len(trades) :
    /\ trades[i].status = "completed"
    /\ trades[i].tp_order_sig # Null
    /\ orders[trades[i].tp_order_sig].status = "completed"
    /\ trades[i].sell_transaction_sig = 100 + trades[i].tp_order_sig
    /\ Sent("tp_executed", trades[i].processed_message_id) = 1

\* C7: once the status of a Position is anything other than open, no
\* monitor tick and no orchestration changes its status or its sell fields:
\* the status never returns to open, and the sell fields, which only a
\* Position that has left open carries, are written at most once.
C7_TerminalIsFinal ==
  [][\A i \in 1..Len(trades) :
       /\ trades[i].status = "open" =>
            trades[i].sell_transaction_sig = Null /\ trades[i].sell_timestamp = Absent
       /\ trades[i].status # "open" =>
            /\ i <= Len(trades')
            /\ trades'[i].status = trades[i].status
            /\ trades'[i].sell_transaction_sig = trades[i].sell_transaction_sig
            /\ trades'[i].sell_timestamp = trades[i].sell_timestamp]_vars

C7_Witness ==
  /\ \E i \in 1..Len(trades) :
       trades[i].status = "completed" /\ trades[i].sell_timestamp \in Nows
  /\ \E i \in 1..Len(trades) : trades[i].status = "failed"

SwapSteps == <<"quote", "sign", "execute">>
OrderSteps == <<"createOrder", "signOrder", "executeOrder">>
IsPrefix(a, b) == Len(a) <= Len(b) /\ a = SubSeq(b, 1, Len(a))
StepsOf(s, steps) ==
  SelectSeq(calls[s], LAMBDA c : \E k \in 1..Len(steps) : steps[k] = c)
IsFailure(ret, reason) == ret = Ret(FALSE, Null, ErrorResult(reason))

\* C8: the swap calls quote, sign and submit in that order and stops at the
\* first step that fails: no sign and no submit after a failed quote, no
\* submit after a failed sign or a quote without requestId; and each of
\* these cases returns (False, None, {error: reason}).
C8_SwapStopsAtFirstFailure ==
  \A s \in Signals :
    /\ IsPrefix(StepsOf(s, SwapSteps), SwapSteps)
    /\ pc[s] = "swap_sign" => quote[s] # NoQuote /\ StepsOf(s, SwapSteps) = <<"quote">>
    /\ pc[s] = "swap_execute" =>
         /\ sign_transaction(quote[s]) /\ quote[s].requestId # Null
         /\ StepsOf(s, SwapSteps) = <<"quote", "sign">>
    /\ SwapReturned(s) =>
         /\ Len(StepsOf(s, SwapSteps)) = 1 => IsFailure(swap[s], "Failed to get quote")
         /\ Len(StepsOf(s, SwapSteps)) = 2 =>
              \/ IsFailure(swap[s], "Failed to sign transaction")
              \/ IsFailure(swap[s], "Missing requestId in quote")
         /\ Len(StepsOf(s, SwapSteps)) # 0

C8_Witness ==
  \E r, s \in Signals :
    /\ pc[r] = "done" /\ StepsOf(r, SwapSteps) = <<"quote">>
    /\ SwapReturned(s) /\ IsFailure(swap[s], "Missing requestId in quote")

\* C9: whenever the swap returns success = False, the result is non-null and
\* carries an error reason, also when the provider answered the execute
\* request with a non-success status.
C9_FailedSwapCarriesError ==
  \A s \in Signals :
    SwapReturned(s) /\ ~swap[s].success =>
      ~swap[s].result.isNone /\ swap[s].result.error # Absent

\* C10: createOrder calls create, sign and execute in that order, stops at
\* the first failing step, returns success only when the provider's execute
\* status is Success, and on every failure returns a non-null result that
\* carries an error reason.
C10_CreateOrderContract ==
  \A s \in Signals :
    /\ IsPrefix(StepsOf(s, OrderSteps), OrderSteps)
    /\ pc[s] = "tp_sign" => StepsOf(s, OrderSteps) = <<"createOrder">>
    /\ pc[s] = "tp_execute" =>
         /\ sign_transaction(quote[s]) /\ quote[s].requestId # Null
         /\ StepsOf(s, OrderSteps) = <<"createOrder", "signOrder">>
    /\ tp[s] # NoRet =>
         /\ tp[s].success =>
              StepsOf(s, OrderSteps) = OrderSteps /\ tp[s].result.status = "Success"
         /\ ~tp[s].success =>
              ~tp[s].result.isNone /\ tp[s].result.error # Absent

\* C11: no failure inside a gateway operation (quote, sign, submit, swap,
\* createOrder) or inside the planner raises an exception to its caller: no
\* orchestration is ended by an exception that left one of them, and after
\* every provider answer and every transport error the swap and the order
\* creation have returned a value.
C11_NoExceptionLeavesGateway ==
  \A s \in Signals :
    /\ outcome[s] \notin {"raised", "tp_raised"}
    /\ pc[s] = "record" => swap[s] # NoRet
    /\ outcome[s] \in {"tp_placed", "tp_failed"} /\ pc[s] = "commit" => tp[s] # NoRet
    /\ outcome[s] = "no_plan" /\ pc[s] = "commit" => trade_plan[s] = NoPlan

\* A transport error at createOrder came back as a failure with its reason.
C11_Witness ==
  \E s \in Signals :
    /\ pc[s] = "commit" /\ outcome[s] = "tp_failed"
    /\ calls[s] = <<"quote", "sign", "execute", "createOrder">>
    /\ IsFailure(tp[s], "ConnectionError")

\* ----------------------------------------------------------------------
\* The planner (PlannerSpec)
\* ----------------------------------------------------------------------
Planned(s) == pc[s] # "plan"
AllSet(cfg) == \A k \in DOMAIN cfg : cfg[k] \notin {Missing, NotNumeric}
\* base_stop_loss_pct * (1 + confidence * sl_decrease_factor), in the unit
\* of RoundHundredths, with the confidence the planner uses
RawStopLoss(a, cfg) ==
  getenv(cfg).base_stop_loss_pct * (10000 + Confidence(a) * getenv(cfg).sl_decrease_factor)

\* C12: for every valid configuration, a decision with confidence 0 is
\* planned with a purchase amount of exactly basePurchase in lamports, a
\* take-profit percentage of exactly baseTakeProfitPct and a stop-loss
\* percentage of exactly baseStopLossPct.
C12_ZeroConfidenceIsBase ==
  \A s \in Signals :
    Planned(s) /\ AllSet(env) /\ analysis[s].confidence_score = 0 =>
      /\ trade_plan[s].amount = env.base_purchase_sol * (LamportsPerSol \div 100)
      /\ trade_plan[s].take_profit_percentage = env.base_take_profit_pct
      /\ trade_plan[s].stop_loss_percentage = env.base_stop_loss_pct

\* C13: whenever baseStopLossPct * (1 + confidence * slDecreaseFactor)
\* exceeds 0.99 the planned stop-loss percentage is exactly 0.99, and in
\* every plan the stop-loss percentage is at most 0.99.
C13_StopLossCapped ==
  \A s \in Signals :
    Planned(s) /\ trade_plan[s] # NoPlan =>
      /\ trade_plan[s].stop_loss_percentage <= 99
      /\ RawStopLoss(analysis[s], env) > 99 * 10000 =>
           trade_plan[s].stop_loss_percentage = 99

\* A plan whose raw stop loss was 0.80 * 1.4 = 1.12.
C13_Witness ==
  \E s \in Signals :
    /\ Planned(s) /\ trade_plan[s] # NoPlan
    /\ RawStopLoss(analysis[s], env) = 80 * 14000
    /\ trade_plan[s].stop_loss_percentage = 99

C15_NoPlanWithoutSetting ==
  \A s \in Signals :
    Planned(s) /\ ~AllSet(env) =>
      trade_plan[s] = NoPlan /\ pc[s] = "commit" /\ outcome[s] = "no_plan"

\* C16: a decision whose confidence is outside [0,1] gets the plan of
\* confidence 0, not None, so its purchase amount is not above basePurchase.
C16_OutOfRangeIsZero ==
  \A s \in Signals :
    LET a == analysis[s]
    IN  Planned(s) /\ ConfigNumeric(env)
        /\ (a.confidence_score < 0 \/ a.confidence_score > 100) =>
          /\ trade_plan[s] # NoPlan
          /\ trade_plan[s] = calculate_trade_plan([a EXCEPT !.confidence_score = 0], env)
          /\ trade_plan[s].amount <= getenv(env).base_purchase_sol * (LamportsPerSol \div 100)

\* A confidence of 1.5 and one of -0.1, both planned.
C16_Witness ==
  \E r, s \in Signals :
    /\ Planned(r) /\ analysis[r].confidence_score = 150 /\ trade_plan[r] # NoPlan
    /\ Planned(s) /\ analysis[s].confidence_score < 0 /\ trade_plan[s] # NoPlan

\* ----------------------------------------------------------------------
\* Take-profit sizing (SizingSpec, Spec)
\* ----------------------------------------------------------------------
\* calculate_take_profit_amounts has been called for s
Sized(s) ==
  \/ pc[s] \in {"tp_sign", "tp_execute"}
  \/ pc[s] = "commit"
     /\ outcome[s] \in {"tp_error", "tp_skipped", "tp_placed", "tp_failed", "tp_raised"}

\* C17: sizeTakeProfit never returns a negative component, whatever its
\* inputs, and with zero tokens received it returns (0, 0) without raising.
C17_SizesNeverNegative ==
  \A s \in Signals :
    Sized(s) =>
      /\ tp_amounts[s].making >= 0 /\ tp_amounts[s].taking >= 0
      /\ new_trade[s].amount_received_token = 0 =>
           tp_amounts[s] = [raised |-> FALSE, making |-> 0, taking |-> 0]

\* C18: for a missing spent or received amount, or a division by zero,
\* sizeTakeProfit returns (0, 0) and does not raise, and no take-profit order
\* is placed; createOrder is never called with a zero making or taking
\* amount.
C18_InvalidSizesAreZero ==
  \A s \in Signals :
    /\ Sized(s) /\ ( \/ new_trade[s].amount_spent_sol \in {NullAmt, 0}
                      \/ new_trade[s].amount_received_token \in {NullAmt, 0} ) =>
         /\ tp_amounts[s] = [raised |-> FALSE, making |-> 0, taking |-> 0]
         /\ StepsOf(s, OrderSteps) = <<>>
    /\ Sized(s) /\ StepsOf(s, OrderSteps) # <<>> =>
         tp_amounts[s].making # 0 /\ tp_amounts[s].taking # 0

\* ----------------------------------------------------------------------
\* End to end (Spec)
\* ----------------------------------------------------------------------
EndToEnd(s) ==
  /\ env = ValidConfig
  /\ env.base_purchase_sol = 100 /\ env.purchase_influence_factor = 50
  /\ analysis[s].decision = "buy" /\ analysis[s].token_address # NoToken
  /\ analysis[s].confidence_score = 80
ReportsAmounts(ret) ==
  /\ ret # NoRet /\ ret.success
  /\ ret.result.inputAmountResult # NullAmt /\ ret.result.outputAmountResult # NullAmt

InSession(s) == pc[s] \in {"take_profit", "tp_sign", "tp_execute", "commit"}
OrderAttempted(s) == StepsOf(s, OrderSteps) # <<>>

NoOrderFor(s) == outcome[s] \in {"tp_failed", "tp_skipped", "tp_error"}

TakeProfitOutcomes == {"tp_error", "tp_skipped", "tp_placed", "tp_failed"}
\* the take-profit step of s is over
TakeProfitOver(s) == pc[s] \in {"commit", "done"} /\ outcome[s] \in TakeProfitOutcomes
\* the swap of s has returned and its result has been handled
SwapHandled(s) ==
  \/ pc[s] \in {"take_profit", "tp_sign", "tp_execute"}
  \/ pc[s] \in {"commit", "done"}
     /\ outcome[s] \in TakeProfitOutcomes \cup {"record_error", "buy_failed"}

\* C23: every orchestrator transition emits exactly one notification for its
\* outcome: one decision summary per analysed message, one trade success or
\* failure notification per swap attempt, and one take-profit success or
\* failure notification per take-profit step of a successful buy.
C23_OneNotificationPerOutcome ==
  \A s \in Signals :
    /\ Sent("decision", s) = IF analysis[s] # NoAnalysis THEN 1 ELSE 0
    /\ Sent("trade_executed", s) + Sent("trade_failed", s) = IF SwapHandled(s) THEN 1 ELSE 0
    /\ Sent("tp_created", s) + Sent("tp_failed", s) = IF TakeProfitOver(s) THEN 1 ELSE 0

\* ----------------------------------------------------------------------
\* The monitor (Spec)
\* ----------------------------------------------------------------------
\* The history holds no closed order for the take-profit signature of row i:
\* the row has none, or its order is not in the history, or is there as open.
NothingClosedFor(i) ==
  \/ trades[i].tp_order_sig = Null
  \/ orders[trades[i].tp_order_sig].status \in {Absent, "Open", "open"}
ReportedOpen(i) ==
  /\ trades[i].tp_order_sig # Null
  /\ orders[trades[i].tp_order_sig].status \in {"Open", "open"}

\* C25: a monitor tick leaves every field of a Position unchanged when the
\* Position's take-profit signature matches no non-open order of the fetched
\* history; if it was open it is open after the tick and is among the trades
\* the next tick examines.
C25_UnmatchedUntouched ==
  [][\A i \in 1..Len(trades) :
       MonitorTick /\ NothingClosedFor(i) =>
         /\ trades'[i] = trades[i]
         /\ trades[i].status = "open" =>
              trades'[i].status = "open" /\ trades_to_check(trades'[i])]_vars

\* A tick has completed the later Position and has left open the earlier
\* one, whose order the provider does not report as closed.
C25_Witness ==
  \E i, j \in 1..Len(trades) :
    /\ j < i
    /\ trades[i].status = "completed"
    /\ trades[j].status = "open" /\ NothingClosedFor(j) /\ trades[j].tp_order_sig # Null
    /\ trades[j].sell_timestamp = Absent

\* C26: an order that the history reports as open never causes a Position
\* transition: the tick changes no field of a Position whose take-profit
\* order is reported as open, sends nothing for it, and its status is open
\* after the tick.
C26_OpenOrderNoTransition ==
  [][\A i \in 1..Len(trades) :
       MonitorTick /\ trades[i].status = "open" /\ ReportedOpen(i) =>
         TickLeaves(i) /\ trades'[i].status = "open"]_vars

\* A tick has cancelled the later Position; the earlier one, whose order is
\* reported as open, is open and nothing was sent for it.
C26_Witness ==
  \E i, j \in 1..Len(trades) :
    /\ i < j
    /\ trades[i].status = "open" /\ ReportedOpen(i)
    /\ trades[j].status = "cancelled"
    /\ Sent("tp_status", trades[i].processed_message_id) = 0

\* The tick moves row i away from open.
TickTransitions(i) == MonitorTick /\ trades[i].status = "open" /\ trades'[i].status # "open"

\* C27 as stated: when the monitor transitions a Position, the stored status
\* is the terminal status string of the matching order as the provider
\* reports it, character for character.
C27_StatusVerbatim ==
  [][\A i \in 1..Len(trades) :
       TickTransitions(i) =>
         trades'[i].status = orders[trades[i].tp_order_sig].status]_vars

\* C27 as amended: when the monitor transitions a Position, the stored
\* status is the terminal status string of the matching order in lower case:
\* completed for completed and Completed, cancelled for Cancelled.
C27_StatusLowerCased ==
  [][\A i \in 1..Len(trades) :
       TickTransitions(i) =>
         LET reported == orders[trades[i].tp_order_sig].status
         IN  /\ reported \in {"completed", "Completed", "Cancelled"}
             /\ reported \in {"completed", "Completed"} => trades'[i].status = "completed"
             /\ reported = "Cancelled" => trades'[i].status = "cancelled"]_vars

\* A Position stored as cancelled for an order the provider reports as
\* Cancelled, and one stored as completed for an order reported as Completed.
C27_Witness ==
  \E i, j \in 1..Len(trades) :
    /\ trades[i].status = "cancelled" /\ orders[trades[i].tp_order_sig].status = "Cancelled"
    /\ trades[j].status = "completed" /\ orders[trades[j].tp_order_sig].status = "Completed"

\* C28: in every reachable state a Position has a sell transaction signature
\* or a sell timestamp only if its status is completed, and every completed
\* Position has both a sell transaction signature and a sell timestamp.
C28_SellFieldsIffCompleted ==
  \A i \in 1..Len(trades) :
    /\ trades[i].sell_transaction_sig # Null \/ trades[i].sell_timestamp # Absent =>
         trades[i].status = "completed"
    /\ trades[i].status = "completed" =>
         trades[i].sell_transaction_sig # Null /\ trades[i].sell_timestamp # Absent

\* ----------------------------------------------------------------------
\* The Position row (Spec)
\* ----------------------------------------------------------------------
\* The fields set at creation.
BuyFields(row) ==
  <<row.processed_message_id, row.token_address, row.buy_transaction_sig,
    row.amount_spent_sol, row.amount_received_token, row.take_profit_percentage>>
\* The fields the monitor writes.
SellFields(row) == <<row.status, row.sell_transaction_sig, row.sell_timestamp>>

ClosedAtProvider(i) ==
  /\ i <= Len(trades) /\ trades[i].status = "open"
  /\ trades[i].tp_order_sig # Null
  /\ trades[i].tp_order_sig \in non_active_orders(orders)
LeftOpen(i) == i <= Len(trades) /\ trades[i].status # "open"

\* C24 as stated: if from some point on every tick fetches a history, and the
\* history holds a non-open order opened by the take-profit signature of an
\* open Position, the Position leaves status open in the end, whatever else
\* the history holds.
C24_EventuallyReconciled ==
  \A i \in Signals :
    <>[](provider \subseteq {"orders", "malformed"}) => (ClosedAtProvider(i) ~> LeftOpen(i))

\* C24: if from some point on every tick fetches a history in which every
\* order carries a status, an open Position whose take-profit signature
\* opened a non-open order of the history leaves status open in the end,
\* whatever ticks failed before and whatever other orders the history holds.
C24_ReconciledOnceWellFormed ==
  \A i \in Signals :
    <>[](provider = {"orders"}) => (ClosedAtProvider(i) ~> LeftOpen(i))

\* A Position has left open after a tick had failed, and the history holds the
\* order of another Position as well.
C24_Witness ==
  /\ provider = {"orders"}
  /\ Sent("monitor_error", 0) >= 1
  /\ \E i, j \in 1..Len(trades) :
       /\ i # j
       /\ trades[i].tp_order_sig # Null
       /\ trades[i].tp_order_sig \in non_active_orders(orders)
       /\ trades[i].status \notin {"open", "failed"}
       /\ orders[j] # NoOrder

\* C34: a tick whose fetch of the order history fails, or whose history
\* holds an order without a status, leaves every Position as it was.
C34_FailedTickChangesNothing ==
  [][TickReads({"failed", "malformed"}) => trades' = trades]_vars

\* A tick has failed, and a Position is still open whose order the provider
\* has closed.
C34_Witness ==
  /\ Sent("monitor_error", 0) >= 1
  /\ \E i \in 1..Len(trades) : ClosedAtProvider(i)

\* The orchestrations that end before the swap.
EndedBeforeSwap == {"no_text", "analysis_failed", "hold", "no_token", "duplicate", "no_plan"}

\* C35: the swap gateway is called for a message only if its decision is a
\* buy with a token address, no Position of an earlier message holds the
\* token, and the planner returns a plan for it; a hold, a buy without a
\* token address and a buy the planner rejects call no gateway and leave no
\* Position, pending or stored.
C35_SwapOnlyForPlannedBuy ==
  \A s \in Signals :
    /\ calls[s] # <<>> =>
         /\ analysis[s].decision = "buy"
         /\ analysis[s].token_address # NoToken
         /\ \A i \in Rows(analysis[s].token_address) : trades[i].processed_message_id >= s
         /\ calculate_trade_plan(analysis[s], env) # NoPlan
    /\ \/ outcome[s] \in EndedBeforeSwap
       \/ pc[s] \in {"idle", "awaiting", "gate", "plan"}
       => calls[s] = <<>> /\ new_trade[s] = NoTrade /\ RowsOf(s) = {}

\* One message was a buy without a token address, or a buy the planner
\* rejected, and called nothing; another was bought.
C35_Witness ==
  \E s, p \in Signals :
    /\ outcome[s] \in {"no_token", "no_plan"} /\ pc[s] = "done"
    /\ analysis[s].decision = "buy"
    /\ calls[s] = <<>> /\ RowsOf(s) = {}
    /\ calls[p] # <<>> /\ RowsOf(p) # {}

PositiveSizing(s) ==
  /\ Sized(s)
  /\ new_trade[s].amount_spent_sol > 0 /\ new_trade[s].amount_received_token > 0
  /\ trade_plan[s].take_profit_percentage >= 0

\* C37: for positive amounts and a non-negative percentage the tokens to
\* sell are floor(received / (1 + percentage)) and the amount to receive is
\* the amount spent, in lamports; so the tokens to sell never exceed the
\* tokens received, and a higher percentage never gives more tokens to sell.
C37_SizesAreExact ==
  \A s \in Signals :
    PositiveSizing(s) =>
      /\ ~tp_amounts[s].raised
      /\ tp_amounts[s].making =
           (new_trade[s].amount_received_token * 100)
             \div (100 + trade_plan[s].take_profit_percentage)
      /\ tp_amounts[s].taking = new_trade[s].amount_spent_sol
      /\ tp_amounts[s].making <= new_trade[s].amount_received_token
      /\ \A r \in Signals :
           /\ PositiveSizing(r)
           /\ new_trade[r].amount_spent_sol = new_trade[s].amount_spent_sol
           /\ new_trade[r].amount_received_token = new_trade[s].amount_received_token
           /\ trade_plan[r].take_profit_percentage >= trade_plan[s].take_profit_percentage
           => tp_amounts[r].making <= tp_amounts[s].making

\* C38: every plan with which the orchestrator goes on to the swap has a
\* strictly positive amount of lamports.
C38_SwapAmountPositive ==
  \A s \in Signals : pc[s] = "swap_quote" => market_swap_amount(s) > 0

\* C32: the trades table is what survives a crash.  From the moment the row
\* of a successful swap has been created, and until the orchestration ends,
\* the table holds an open Position of that signal, so that a stop of the
\* process at any of these points leaves the Position behind; and every row
\* of the table is a whole row.
C32_PositionDurableOnceCreated ==
  /\ \A s \in Signals :
       pc[s] \in {"take_profit", "tp_sign", "tp_execute", "commit"} /\ swap[s].success =>
         \E i \in RowsOf(s) :
           /\ trades[i].status = "open"
           /\ trades[i].token_address = analysis[s].token_address
  /\ \A i \in 1..Len(trades) :
       /\ trades[i].status # Absent
       /\ trades[i].token_address # NoToken
       /\ trades[i].processed_message_id \in Signals

\* Where an orchestration is about to send a request to the gateway: the
\* quote, the execution of the swap, the creation and the execution of the
\* take-profit order.  A call that never returns leaves it there.
InGatewayCall(s) == pc[s] \in {"swap_quote", "swap_execute", "take_profit", "tp_execute"}

\* C31: while an orchestration is inside a gateway call, the monitor can make
\* its tick and a message that is waiting can be analysed.
C31_StuckCallBlocksOnlyItself ==
  \A s \in Signals :
    InGatewayCall(s) =>
      /\ ENABLED MonitorTick
      /\ \A r \in Signals : r # s /\ pc[r] = "awaiting" => ENABLED Analyse(r)

\* The orchestrations that ended in a failure, and the ticks that did.
FailedOutcomes ==
  {"analysis_failed", "no_plan", "raised", "buy_failed", "record_error",
   "tp_failed", "tp_error", "tp_raised"}
SomethingFailed ==
  \/ Sent("monitor_error", 0) >= 1
  \/ \E s \in Signals : outcome[s] \in FailedOutcomes

\* C33: once an orchestration or a tick has failed, nothing has stopped: the
\* monitor can make its next tick as soon as no handler holds the event
\* loop, the handler that holds it can take its next step, a message that
\* has arrived can be analysed when those before it are done, and a message
\* can still arrive.
C33_LoopSurvivesFailures ==
  SomethingFailed =>
    /\ running = 0 => ENABLED MonitorTick
    /\ \A s \in Signals :
         /\ running = s => ENABLED Handler(s)
         /\ pc[s] = "idle" => ENABLED NewMessage(s)
         /\ pc[s] = "awaiting" /\ running = 0 /\ (\A r \in Signals : r < s => pc[r] = "done")
              => ENABLED Analyse(s)

\* The first buy failed and a tick failed; the message after them was bought
\* and a later tick has closed its Position.
C33_Witness ==
  /\ Sent("monitor_error", 0) >= 1
  /\ \E s, r \in Signals :
       /\ s < r
       /\ outcome[s] \in FailedOutcomes
       /\ pc[r] = "done" /\ outcome[r] = "tp_placed"
       /\ \E i \in RowsOf(r) : trades[i].status \notin {"open", "failed"}

=============================================================================
